---- MODULE Spec2Model ----
(***************************************************************************)
(* FileWatcher (ashi009/file-watcher): the registry of watched paths       *)
(* (pFiles), the per-directory native watch groups (pWatchers), the        *)
(* classifier pHandleChange, the periodic sweep pCheckFolders and          *)
(* save/restore, over a small file system.                                 *)
(*                                                                         *)
(* Paths are sequences of one-character strings, so that the string        *)
(* operations of the code (dir + file, startsWith, substr, dirname) are    *)
(* computed and not looked up.  JS objects used as hashes (pFiles,         *)
(* pWatchers) are functions from keys to entries; the order in which       *)
(* for..in visits the keys is not fixed by the language, so every loop     *)
(* takes its order as an input and all orders are explored.  A JS          *)
(* exception is the field raised of the operation's result: the statements *)
(* before the throw have taken effect, those after it have not.            *)
(***************************************************************************)
EXTENDS Integers, Sequences, FiniteSets, Bags, TLC

VARIABLES
  fs,         \* file system: path -> "none" | "dir" | a file version
  validate,   \* pOptions.validate
  pFiles,     \* this.pFiles: key -> [name, stat]
  pWatchers,  \* this.pWatchers: key -> [handler, count, watchDir]
  osWatch,    \* the FSWatcher objects that are open: [dir, stale]
  saved,      \* the value returned by the last save()
  aliased,    \* that value is the very object this.pFiles refers to
  last,       \* per target: what the caller was last told of its existence
  op,         \* the last operation and its argument
  log,        \* the pCallback invocations of the last operation, a bag
  raised      \* the exception the last operation ended with, or "none"

vars == <<fs, validate, pFiles, pWatchers, osWatch, saved, aliased, last, op,
          log, raised>>

----------------------------------------------------------------------------
(* Paths *)

DirA == <<"/", "a">>
FileF == <<"/", "a", "/", "f">>
FileG == <<"/", "a", "/", "g">>

\* a file beside the directory, whose path begins with the directory's
FileAB == <<"/", "a", "b">>

\* the root directory, which is always there
Root == <<"/">>

FsDirs == {DirA}
FsFiles == {FileF, FileG, FileAB}
FsPaths == FsDirs \cup FsFiles

\* the file names a native event may carry
EventNames == {<<"f">>, <<"g">>}

StartsWith(s, p) == Len(p) <= Len(s) /\ SubSeq(s, 1, Len(p)) = p

Substr(s, n) == SubSeq(s, n + 1, Len(s))

LastSlash(s) ==
  LET idx == {i \in 1..Len(s) : s[i] = "/"}
  IN IF idx = {} THEN 0 ELSE CHOOSE i \in idx : \A j \in idx : j <= i

StripSlash(p) ==
  IF Len(p) > 1 /\ p[Len(p)] = "/" THEN SubSeq(p, 1, Len(p) - 1) ELSE p

\* Path.resolve of an absolute path: a trailing slash is dropped
Resolve(p) == StripSlash(p)

\* Path.dirname
Dirname(p) ==
  LET i == LastSlash(p)
  IN IF i <= 1 THEN <<"/">> ELSE SubSeq(p, 1, i - 1)

----------------------------------------------------------------------------
(* File system *)

\* the versions a regular file can have on disk
\*   v1: the original bytes
\*   v2: the same bytes written again (mtime moves, size and crc32 do not)
\*   v3: other bytes of the same size (mtime and crc32 move)
FileVersions == {"v1", "v2", "v3"}

\* FileF is the file that gets rewritten; FileG only comes and goes
VersionsOf(f) == IF f = <<"/", "a", "/", "f">> THEN FileVersions ELSE {"v1"}

SizeOf(v) == IF v = "dir" THEN 0 ELSE 1

MtimeOf(v) == CASE v = "v1" -> 1 [] v = "v2" -> 2 [] v = "v3" -> 2 [] OTHER -> 0

Crc32Of(v) == CASE v = "v1" -> 10 [] v = "v2" -> 10 [] v = "v3" -> 20 [] OTHER -> 0

\* JS null, as a stat
Null == [kind |-> "null", size |-> 0, mtime |-> 0, crc32 |-> 0]

\* JS undefined, as a field of a stat or as a callback argument
Undefined == 0 - 1

UndefinedArg == [kind |-> "undefined", size |-> 0, mtime |-> 0, crc32 |-> Undefined]

\* a number (or undefined) passed where the callback expects a stat
ValueArg(c) ==
  IF c = Undefined THEN UndefinedArg
  ELSE [kind |-> "number", size |-> 0, mtime |-> 0, crc32 |-> c]

\* Fs.existsSync
ExistsSync(p) ==
  LET q == StripSlash(p)
  IN \/ q = Root
     \/ /\ q \in FsPaths
        /\ fs[q] # "none"
        /\ (q # p => fs[q] = "dir")

\* the stat a probe of path p returns now
pGetFileStat(file) ==
  IF ~ExistsSync(file) THEN Null
  ELSE LET v == fs[StripSlash(file)]
       IN [kind |-> IF v = "dir" THEN "dir" ELSE "file",
           size |-> SizeOf(v),
           mtime |-> MtimeOf(v),
           crc32 |-> IF v # "dir" /\ validate THEN Crc32Of(v) ELSE Undefined]

----------------------------------------------------------------------------
(* Hash objects *)

EmptyHash == <<>>

HasKey(h, k) == k \in DOMAIN h

Put(h, k, v) == [x \in DOMAIN h \cup {k} |-> IF x = k THEN v ELSE h[x]]

Delete(h, k) == [x \in DOMAIN h \ {k} |-> h[x]]

\* the orders in which for..in may visit the keys of h
Orders(h) ==
  LET n == Cardinality(DOMAIN h)
  IN {s \in [1..n -> DOMAIN h] : \A i, j \in 1..n : s[i] = s[j] => i = j}

\* (a !== null) ^ (b !== null), on the two truth values
Xor(a, b) == a # b

Callback(reg, evt, name, arg) ==
  [reg EXCEPT !.log = @ (+) SetToBag({[evt |-> evt, name |-> name, arg |-> arg]})]

Raise(reg, e) == [reg EXCEPT !.raised = e]

\* the watcher's state as the operations see it
Reg == [pFiles |-> pFiles, pWatchers |-> pWatchers, osWatch |-> osWatch,
        log |-> EmptyBag, raised |-> "none"]

----------------------------------------------------------------------------
(* FileWatcher *)

\* options.fullName: report the resolved path (the default)
FullNameOpt == TRUE

\* pWatchDir(dir); fail is the set of directories Fs.watch throws on
pWatchDir(reg, dir, fail) ==
  IF reg.pWatchers[dir].handler \/ ~ExistsSync(dir) THEN reg
  ELSE IF dir \in fail THEN Raise(reg, "Error")
  ELSE [reg EXCEPT !.pWatchers[dir].handler = TRUE,
                   !.osWatch = @ \cup {[dir |-> dir, stale |-> FALSE]}]

pUnwatchDir(reg, dir) ==
  IF reg.pWatchers[dir].handler
  THEN [reg EXCEPT !.pWatchers[dir].handler = FALSE,
                   !.osWatch = {h \in @ : h.dir # dir}]
  ELSE reg

\* watch, past its first test: the stub, the group and its counter
Register(reg, file, fail) ==
  LET fullName == Resolve(file)
      stat == pGetFileStat(fullName)
      stub == [name |-> IF FullNameOpt THEN fullName ELSE file,
               stat |-> stat]
      r1 == [reg EXCEPT !.pFiles = Put(@, fullName, stub)]
  IN IF stat = Null THEN Raise(r1, "TypeError")       \* stub.stat.isDirectory()
     ELSE
       LET watchDir == stat.kind = "dir"
           dir == IF watchDir THEN fullName
                  ELSE Dirname(fullName) \o <<"/">>
           r2 == IF ~HasKey(r1.pWatchers, dir)
                 THEN pWatchDir(
                        [r1 EXCEPT !.pWatchers = Put(@, dir,
                           [handler |-> FALSE, count |-> 0,
                            watchDir |-> FALSE])],
                        dir, fail)
                 ELSE r1
       IN IF r2.raised # "none" THEN r2
          ELSE IF watchDir
               THEN [r2 EXCEPT !.pWatchers[dir].watchDir = TRUE]
               ELSE [r2 EXCEPT !.pWatchers[dir].count = @ + 1]

\* watch without its first test: a path already watched is registered again
watchAgain(reg, file, fail) == Register(reg, file, fail)

watch(reg, file, fail) ==
  IF HasKey(reg.pFiles, Resolve(file)) THEN reg
  ELSE Register(reg, file, fail)

unwatch(reg, file) ==
  LET fullName == Resolve(file)
  IN IF ~HasKey(reg.pFiles, fullName) THEN reg
     ELSE
       LET r1 == [reg EXCEPT !.pFiles = Delete(@, fullName)]
           parent == Dirname(fullName) \o <<"/">>
       IN IF ~HasKey(r1.pWatchers, fullName) /\ ~HasKey(r1.pWatchers, parent)
          THEN Raise(r1, "TypeError")                 \* stub is undefined
          ELSE
            LET k == IF HasKey(r1.pWatchers, fullName) THEN fullName ELSE parent
                r2 == IF k = fullName
                      THEN [r1 EXCEPT !.pWatchers[k].watchDir = FALSE]
                      ELSE [r1 EXCEPT !.pWatchers[k].count = @ - 1]
                stub == r2.pWatchers[k]
            IN IF stub.count = 0 /\ ~stub.watchDir
               THEN Raise(r2, "ReferenceError")       \* dir is not defined
               ELSE r2

\* pCheckFileExistenceChange with its two results exchanged
pCheckFileExistenceChangeSwapped(stat, nstat) ==
  IF Xor(stat # Null, nstat # Null)
  THEN IF nstat # Null THEN "remove" ELSE "create"
  ELSE ""

\* create/remove if the existence changed, "" (null) otherwise
pCheckFileExistenceChange(stat, nstat) ==
  IF Xor(stat # Null, nstat # Null)
  THEN IF nstat # Null THEN "create" ELSE "remove"
  ELSE ""

\* Classify that takes an equal size for an unchanged file
ClassifySizeOnly(stat, nstat, evt) ==
  IF evt = "rename"
  THEN LET e == pCheckFileExistenceChange(stat, nstat)
       IN IF e # "" THEN e ELSE evt
  ELSE IF evt = "change" /\ validate /\ nstat.size = stat.size
       THEN ""
       ELSE evt

\* Classify that reports nothing for a rename that changed no existence
ClassifyRenameSilent(stat, nstat, evt) ==
  IF evt = "rename"
  THEN pCheckFileExistenceChange(stat, nstat)
  ELSE IF /\ evt = "change"
          /\ validate
          /\ nstat.size = stat.size
          /\ nstat.crc32 = stat.crc32
       THEN ""
       ELSE evt

\* the event pHandleChange reports for a target with stored stat stat and
\* new stat nstat: evt, another one, or "" (null) for none
Classify(stat, nstat, evt) ==
  IF evt = "rename"
  THEN LET e == pCheckFileExistenceChange(stat, nstat)
       IN IF e # "" THEN e ELSE evt
  ELSE IF /\ evt = "change"
          /\ validate
          /\ nstat.size = stat.size
          /\ nstat.crc32 = stat.crc32
       THEN ""
       ELSE evt

\* pHandleChange that keeps the stored stat when it reports nothing
pHandleChangeKeepStat(reg, dir, evt, file) ==
  LET fullName == dir \o file
  IN IF HasKey(reg.pFiles, fullName)
     THEN
       LET stub == reg.pFiles[fullName]
           nstat == pGetFileStat(fullName)
           throws == /\ evt = "change"
                     /\ validate
                     /\ (nstat = Null \/ stub.stat = Null)
           evt2 == Classify(stub.stat, nstat, evt)
           r1 == [reg EXCEPT !.pFiles[fullName].stat = nstat]
       IN IF throws THEN Raise(reg, "TypeError")
          ELSE IF evt2 # "" THEN Callback(r1, evt2, stub.name, nstat)
          ELSE reg
     ELSE IF ~HasKey(reg.pWatchers, dir) THEN Raise(reg, "TypeError")
     ELSE IF reg.pWatchers[dir].watchDir
          THEN Callback(reg, evt, fullName, UndefinedArg)
          ELSE reg

pHandleChange(reg, dir, evt, file) ==
  LET fullName == dir \o file
  IN IF HasKey(reg.pFiles, fullName)
     THEN
       LET stub == reg.pFiles[fullName]
           nstat == pGetFileStat(fullName)
           throws == /\ evt = "change"
                     /\ validate
                     /\ (nstat = Null \/ stub.stat = Null)
           evt2 == Classify(stub.stat, nstat, evt)
           r1 == [reg EXCEPT !.pFiles[fullName].stat = nstat]
       IN IF throws THEN Raise(reg, "TypeError")      \* nstat.size of null
          ELSE IF evt2 # "" THEN Callback(r1, evt2, stub.name, nstat)
          ELSE r1
     ELSE IF ~HasKey(reg.pWatchers, dir) THEN Raise(reg, "TypeError")
     ELSE IF reg.pWatchers[dir].watchDir
          THEN Callback(reg, evt, fullName, UndefinedArg)
          ELSE reg

getFileStat(reg, file) ==
  IF HasKey(reg.pFiles, Resolve(file))
  THEN reg.pFiles[Resolve(file)].stat
  ELSE UndefinedArg

RECURSIVE CheckFiles(_, _, _, _)
\* the inner loop of pCheckFolders, from the i-th key of pFiles in order fo
CheckFiles(reg, dir, fo, i) ==
  IF i > Len(fo) \/ reg.raised # "none" THEN reg
  ELSE LET fullName == fo[i]
       IN CheckFiles(
            IF StartsWith(fullName, dir)
            THEN pHandleChange(reg, dir, "rename", Substr(fullName, Len(dir)))
            ELSE reg,
            dir, fo, i + 1)

RECURSIVE CheckFoldersFrom(_, _, _, _, _)
\* the outer loop of pCheckFolders, from the j-th key of pWatchers in order wo
CheckFoldersFrom(reg, fail, wo, fo, j) ==
  IF j > Len(wo) \/ reg.raised # "none" THEN reg
  ELSE LET dir == wo[j]
           exist == ExistsSync(dir)
       IN IF Xor(reg.pWatchers[dir].handler, exist)
          THEN LET r1 == IF exist THEN pWatchDir(reg, dir, fail)
                         ELSE pUnwatchDir(reg, dir)
               IN CheckFoldersFrom(CheckFiles(r1, dir, fo, 1), fail, wo, fo, j + 1)
          ELSE CheckFoldersFrom(reg, fail, wo, fo, j + 1)

pCheckFolders(reg, fail, wo, fo) == CheckFoldersFrom(reg, fail, wo, fo, 1)

\* reset that forgets the groups without closing their handles
resetKeepHandles(reg) ==
  [reg EXCEPT !.pFiles = EmptyHash, !.pWatchers = EmptyHash]

\* pUnwatchDir of every group, then both hashes are replaced by empty ones
reset(reg) ==
  [reg EXCEPT
     !.osWatch = {h \in @ : ~(HasKey(reg.pWatchers, h.dir)
                               /\ reg.pWatchers[h.dir].handler)},
     !.pFiles = EmptyHash,
     !.pWatchers = EmptyHash]

\* return this.pFiles: the caller holds the registry's own hash
saveByReference(reg) == [files |-> reg.pFiles, aliased |-> TRUE]

\* $valueCopy(this.pFiles): a copy that shares no object with this.pFiles
save(reg) == [files |-> reg.pFiles, aliased |-> FALSE]

\* nstat.mtime != stat.mtime: both operands are Date objects and nstat was
\* allocated by the statSync of this very restore, so the two are never the
\* same object, whatever times they hold
MtimeNe(nmtime, mtime) == TRUE

RECURSIVE RestoreFrom(_, _, _, _, _)
\* the loop of restore, from the i-th key of files in order so
RestoreFrom(reg, files, fail, so, i) ==
  IF i > Len(so) \/ reg.raised # "none" THEN reg
  ELSE
    LET fullName == so[i]
        r1 == watch(reg, fullName, fail)
    IN IF r1.raised # "none" THEN r1
       ELSE
         LET stat == files[fullName].stat
             nstat == r1.pFiles[fullName].stat
             evt == IF Xor(stat # Null, nstat # Null)
                    THEN IF nstat # Null THEN "create" ELSE "remove"
                    ELSE IF nstat # Null /\ stat # Null
                    THEN IF validate
                         THEN IF \/ nstat.size # stat.size
                                 \/ nstat.crc32 # stat.crc32
                              THEN "change" ELSE ""
                         ELSE IF MtimeNe(nstat.mtime, stat.mtime)
                              THEN "change" ELSE ""
                    ELSE ""
             r2 == IF evt = "" THEN r1
                   ELSE IF nstat = Null THEN Raise(r1, "TypeError")
                   ELSE Callback(r1, evt, fullName, ValueArg(nstat.crc32))
         IN RestoreFrom(r2, files, fail, so, i + 1)

restore(reg, files, fail, so) == RestoreFrom(reset(reg), files, fail, so, 1)

----------------------------------------------------------------------------
(* The state machine *)

\* how far below zero the model follows a group's count
MaxDeficit == 1

\* the paths of the two-files scenario and of the directory scenario
TwoFiles == {FileF, FileG}

DirAndFile == {DirA, DirA \o <<"/">>, FileF}

\* the paths of the scenario with a file beside the directory
Beside == {DirA, FileF, FileAB}

\* Fs.watch succeeds; Fs.watch throws on one directory during an operation
NoFail == {{}}

OneFail == {{}} \cup {{d} : d \in FsDirs \cup {d \o <<"/">> : d \in FsDirs}}

Init ==
  /\ fs \in [FsPaths -> {"none", "dir", "v1"}]
  /\ \A d \in FsDirs : fs[d] \in {"none", "dir"}
  /\ \A f \in FsFiles : fs[f] # "dir"
  /\ \A f \in FsFiles :
       Dirname(f) \in FsDirs /\ fs[Dirname(f)] = "none" => fs[f] = "none"
  /\ \A f \in FsFiles \ TwoFiles : fs[f] = "none"
  /\ validate \in BOOLEAN
  /\ pFiles = EmptyHash
  /\ pWatchers = EmptyHash
  /\ osWatch = {}
  /\ saved = EmptyHash
  /\ aliased = FALSE
  /\ last = EmptyHash
  /\ op = [name |-> "new", arg |-> <<>>, evt |-> "", again |-> FALSE]
  /\ log = EmptyBag
  /\ raised = "none"

\* the kinds evt reported for the target k among the callbacks l
Reported(l, k, evt) == \E c \in BagToSet(l) : c.name = k /\ c.evt = evt

\* what the caller was last told of the existence of each target, after
\* an operation that ended as r: the create or remove reported last; a
\* target the operation registered stands as the operation found it, as if
\* created when it is there and as if removed when it is not
Last(r, name) ==
  [k \in DOMAIN r.pFiles |->
     IF k \notin DOMAIN pFiles \/ name = "restore"
     THEN IF r.pFiles[k].stat # Null THEN "create" ELSE "remove"
     ELSE IF Reported(r.log, k, "create") THEN "create"
     ELSE IF Reported(r.log, k, "remove") THEN "remove"
     ELSE last[k]]

\* the watcher's variables after an operation that ended as r; again says
\* that this call is a watch of the path the call before it watched
Becomes(r, name, arg, evt) ==
  /\ pFiles' = r.pFiles
  /\ last' = Last(r, name)
  /\ pWatchers' = r.pWatchers
  /\ osWatch' = r.osWatch
  /\ log' = r.log
  /\ raised' = r.raised
  /\ op' = [name |-> name, arg |-> arg, evt |-> evt,
            again |-> /\ name = "watch"
                      /\ op.name = "watch"
                      /\ Resolve(op.arg) = Resolve(arg)]

\* what an operation that ended as r leaves of the snapshot the caller
\* holds: a snapshot that is the object this.pFiles refers to changes with
\* the registry, until the operation puts a new object in this.pFiles
Snapshot(r, replaced) ==
  /\ saved' = IF aliased /\ ~replaced THEN r.pFiles ELSE saved
  /\ aliased' = (aliased /\ ~replaced)

\* the caller's calls, with the paths (ps) it passes and the ways (fails)
\* Fs.watch may fail
Watch(ps, fails) ==
  \E file \in ps, fail \in fails :
    /\ Becomes(watch(Reg, file, fail), "watch", file, "")
    /\ Snapshot(watch(Reg, file, fail), FALSE)
    /\ UNCHANGED <<fs, validate>>

\* unwatch of a target that was registered without its group being counted
\* up takes count below zero, without end; the model stops at -MaxDeficit
Unwatch(ps) ==
  \E file \in ps :
    /\ \A d \in DOMAIN unwatch(Reg, file).pWatchers :
         unwatch(Reg, file).pWatchers[d].count >= 0 - MaxDeficit
    /\ Becomes(unwatch(Reg, file), "unwatch", file, "")
    /\ Snapshot(unwatch(Reg, file), FALSE)
    /\ UNCHANGED <<fs, validate>>

\* a delivery of the native watch of an open handle
NativeEvent ==
  \E h \in osWatch, evt \in {"rename", "change"}, file \in EventNames :
    /\ Becomes(pHandleChange(Reg, h.dir, evt, file), "event", h.dir \o file, evt)
    /\ Snapshot(pHandleChange(Reg, h.dir, evt, file), FALSE)
    /\ UNCHANGED <<fs, validate>>

\* the interval timer fires
Tick(fails) ==
  \E fail \in fails, wo \in Orders(pWatchers), fo \in Orders(pFiles) :
    /\ Becomes(pCheckFolders(Reg, fail, wo, fo), "tick", <<>>, "")
    /\ Snapshot(pCheckFolders(Reg, fail, wo, fo), FALSE)
    /\ UNCHANGED <<fs, validate>>

Reset ==
  /\ Becomes(reset(Reg), "reset", <<>>, "")
  /\ Snapshot(reset(Reg), TRUE)
  /\ UNCHANGED <<fs, validate>>

Save ==
  /\ saved' = save(Reg).files
  /\ aliased' = save(Reg).aliased
  /\ Becomes(Reg, "save", <<>>, "")
  /\ UNCHANGED <<fs, validate>>

Restore(fails) ==
  \E fail \in fails, so \in Orders(saved) :
    /\ Becomes(restore(Reg, saved, fail, so), "restore", <<>>, "")
    /\ Snapshot(restore(Reg, saved, fail, so), TRUE)
    /\ UNCHANGED <<fs, validate>>

\* the environment: something else changes the file system
FsStep(name) ==
  /\ op' = [name |-> name, arg |-> <<>>, evt |-> "", again |-> FALSE]
  /\ log' = EmptyBag
  /\ raised' = "none"
  /\ UNCHANGED <<validate, pFiles, pWatchers, saved, aliased, last>>

MkDir ==
  \E d \in FsDirs :
    /\ fs[d] = "none"
    /\ fs' = [fs EXCEPT ![d] = "dir"]
    /\ osWatch' = osWatch
    /\ FsStep("mkdir")

\* rm -r: the directory goes with what it holds, and the handles open on
\* it watch nothing any more
RmDir ==
  \E d \in FsDirs :
    /\ fs[d] = "dir"
    /\ fs' = [p \in FsPaths |->
                IF p = d \/ StartsWith(p, d \o <<"/">>) THEN "none" ELSE fs[p]]
    /\ osWatch' = {IF StripSlash(h.dir) = d THEN [h EXCEPT !.stale = TRUE] ELSE h
                     : h \in osWatch}
    /\ FsStep("rmdir")

WriteFile(ps) ==
  \E f \in ps \cap FsFiles : \E v \in VersionsOf(f) :
    /\ ExistsSync(Dirname(f) \o <<"/">>)
    /\ fs[f] # v
    /\ fs' = [fs EXCEPT ![f] = v]
    /\ osWatch' = osWatch
    /\ FsStep("write")

RemoveFile(ps) ==
  \E f \in ps \cap FsFiles :
    /\ fs[f] # "none"
    /\ fs' = [fs EXCEPT ![f] = "none"]
    /\ osWatch' = osWatch
    /\ FsStep("unlink")

\* two files of one directory, with snapshots; Fs.watch does not fail
Next ==
  \/ Watch(TwoFiles, NoFail)
  \/ Unwatch(TwoFiles)
  \/ NativeEvent
  \/ Tick(NoFail)
  \/ Reset
  \/ Save
  \/ Restore(NoFail)
  \/ MkDir
  \/ RmDir
  \/ WriteFile(TwoFiles)
  \/ RemoveFile(TwoFiles)

Spec == Init /\ [][Next]_vars

\* a directory and a file in it, where Fs.watch may fail
NextDir ==
  \/ Watch(DirAndFile, OneFail)
  \/ Unwatch(DirAndFile)
  \/ NativeEvent
  \/ Tick(OneFail)
  \/ Reset
  \/ MkDir
  \/ RmDir
  \/ WriteFile(DirAndFile)
  \/ RemoveFile(DirAndFile)

SpecDir == Init /\ [][NextDir]_vars

\* a watched directory, a file in it and a file beside it
NextBeside ==
  \/ Watch(Beside, NoFail)
  \/ NativeEvent
  \/ Tick(NoFail)
  \/ MkDir
  \/ RmDir
  \/ WriteFile(Beside)
  \/ RemoveFile(Beside)

SpecBeside == Init /\ [][NextBeside]_vars

----------------------------------------------------------------------------
(* The claims *)

\* the group key of a file target: Path.dirname(fullName) + '/'
ParentKey(p) == Dirname(p) \o <<"/">>

\* C1: a directory group is in the group table only while a file target
\* counts on it (count > 0) or the directory itself is watched (watchDir);
\* a group whose last file target was unwatched is gone
C1_GroupIffReferenced ==
  \A d \in DOMAIN pWatchers : pWatchers[d].count > 0 \/ pWatchers[d].watchDir

\* C2: watch(f1); watch(f2) of two existing files of one directory make one
\* group with count 2; unwatch(f1) leaves it with count 1; unwatch(f2) ends
\* without an exception and removes the group and its handle
C2_DirectoryShare ==
  [][\A f \in TwoFiles :
       LET d == ParentKey(f)
           g == CHOOSE x \in TwoFiles : x # f
       IN /\ ( /\ op'.name = "watch" /\ op'.arg = f /\ ExistsSync(f)
               /\ \/ pFiles = EmptyHash /\ pWatchers = EmptyHash
                  \/ /\ DOMAIN pFiles = {g} /\ DOMAIN pWatchers = {d}
                     /\ pWatchers[d].count = 1
               => /\ raised' = "none"
                  /\ DOMAIN pWatchers' = {d}
                  /\ pWatchers'[d].count = Cardinality(DOMAIN pFiles') )
          /\ ( /\ op'.name = "unwatch" /\ op'.arg = f
               /\ DOMAIN pFiles = {f, g} /\ DOMAIN pWatchers = {d}
               /\ pWatchers[d].count = 2
               => /\ raised' = "none"
                  /\ DOMAIN pWatchers' = {d}
                  /\ pWatchers'[d].count = 1 )
          /\ ( /\ op'.name = "unwatch" /\ op'.arg = f
               /\ DOMAIN pFiles = {f} /\ DOMAIN pWatchers = {d}
               /\ pWatchers[d].count = 1
               => /\ raised' = "none"
                  /\ pWatchers' = EmptyHash
                  /\ osWatch' = {} )
    ]_vars

\* C3: a watch(p) that directly follows a watch(p) changes nothing: the
\* targets, their stats, the groups and their counters stay as the first
\* call left them, no callback is invoked and nothing is raised
C3_IdempotentWatch ==
  [][op'.again =>
       /\ UNCHANGED <<pFiles, pWatchers, osWatch>>
       /\ log' = EmptyBag
       /\ raised' = "none"]_vars

\* the second of two watch(FileF) returned, FileF counted once
C3_Witness ==
  /\ op.again
  /\ op.arg = FileF
  /\ FileF \in DOMAIN pFiles
  /\ ParentKey(FileF) \in DOMAIN pWatchers
  /\ pWatchers[ParentKey(FileF)].count = 1

\* the callbacks l are exactly one call (evt, name, arg)
OneCall(l, evt, name, arg) ==
  l = SetToBag({[evt |-> evt, name |-> name, arg |-> arg]})

\* the callbacks l are exactly one call, of kind evt
OneCallOfKind(l, evt) ==
  BagCardinality(l) = 1 /\ \A c \in BagToSet(l) : c.evt = evt

\* the last operation was the delivery of a native evt for a watched target
Delivered(o, files, evt) ==
  o.name = "event" /\ o.evt = evt /\ o.arg \in DOMAIN files

\* C4 as claimed: a rename-kind raw event for a watched file target invokes
\* the callback with create iff the stored stat was absent and the path now
\* exists, with remove iff it was present and the path is gone, and invokes
\* no callback iff the existence is as stored
C4_ExistenceXorSilent ==
  [][Delivered(op', pFiles, "rename") =>
       LET old == pFiles[op'.arg].stat # Null
           new == fs[op'.arg] # "none"
       IN /\ (~old /\ new) => OneCallOfKind(log', "create")
          /\ (old /\ ~new) => OneCallOfKind(log', "remove")
          /\ (old = new) => log' = EmptyBag
    ]_vars

\* C4 as amended: the same for create and remove; when the existence is as
\* stored the callback is invoked once, with rename
C4_ExistenceXor ==
  [][Delivered(op', pFiles, "rename") =>
       LET old == pFiles[op'.arg].stat # Null
           new == fs[op'.arg] # "none"
       IN /\ raised' = "none"
          /\ (~old /\ new) => OneCallOfKind(log', "create")
          /\ (old /\ ~new) => OneCallOfKind(log', "remove")
          /\ (old = new) => OneCallOfKind(log', "rename")
    ]_vars

\* a rename was delivered for a target stored as absent whose file exists
C4_Witness ==
  /\ Delivered(op, pFiles, "rename")
  /\ OneCallOfKind(log, "create")
  /\ fs[op.arg] # "none"

\* C5: with validate, a change-kind raw event for a watched existing file
\* whose new size and crc32 equal the stored ones invokes no callback, and
\* one whose size is equal and whose crc32 differs invokes it once with
\* change; without validate every change-kind raw event for a watched file
\* invokes it once with change
C5_ValidationSuppression ==
  [][Delivered(op', pFiles, "change") =>
       LET stub == pFiles[op'.arg]
           nstat == pGetFileStat(op'.arg)
       IN /\ ( /\ validate /\ stub.stat # Null /\ nstat # Null
               /\ nstat.size = stub.stat.size
               /\ nstat.crc32 = stub.stat.crc32
               => log' = EmptyBag /\ raised' = "none" )
          /\ ( /\ validate /\ stub.stat # Null /\ nstat # Null
               /\ nstat.size = stub.stat.size
               /\ nstat.crc32 # stub.stat.crc32
               => OneCall(log', "change", stub.name, nstat) )
          /\ ( ~validate => OneCall(log', "change", stub.name, nstat) )
    ]_vars

\* a change was delivered for a file rewritten with the bytes it had (its
\* mtime moved), and nothing was reported
C5_Witness ==
  /\ validate
  /\ Delivered(op, pFiles, "change")
  /\ log = EmptyBag
  /\ raised = "none"
  /\ pFiles[op.arg].stat # Null
  /\ pFiles[op.arg].stat.mtime = 2
  /\ pFiles[op.arg].stat.crc32 = Crc32Of("v1")

\* the calls among the callbacks l that name the target name
CallsFor(l, name) == {c \in BagToSet(l) : c.name = name}

\* C6: FileF was watched while it existed; its directory was deleted and
\* made again with a FileF of other bytes; the next tick invokes the
\* callback exactly once for FileF, with create or change and the new stat,
\* and leaves the group with a handle on the directory that exists now,
\* also when no tick ran while the directory was gone
C6_RecreateRecovery ==
  [][( /\ op'.name = "tick"
       /\ FileF \in DOMAIN pFiles
       /\ pFiles[FileF].stat # Null
       /\ pFiles[FileF].stat.mtime = MtimeOf("v1")
       /\ ParentKey(FileF) \in DOMAIN pWatchers
       /\ [dir |-> ParentKey(FileF), stale |-> TRUE] \in osWatch
       /\ fs[DirA] = "dir"
       /\ fs[FileF] = "v3" )
     => /\ Cardinality(CallsFor(log', FileF)) = 1
        /\ \A c \in CallsFor(log', FileF) :
             /\ CopiesIn(c, log') = 1
             /\ c.evt \in {"create", "change"}
             /\ c.arg = pGetFileStat(FileF)
        /\ [dir |-> ParentKey(FileF), stale |-> FALSE] \in osWatch'
    ]_vars

\* C7: restore of a snapshot whose stats are those of the files on disk
\* invokes no callback, with validate and without; when exactly one file of
\* the snapshot has other bytes on disk than in the snapshot, restore
\* invokes the callback exactly once, with change, that file and its new stat
C7_SnapshotRoundTrip ==
  [][op'.name = "restore" /\ saved # EmptyHash =>
       LET changed == {k \in DOMAIN saved : saved[k].stat # pGetFileStat(k)}
       IN /\ changed = {} => log' = EmptyBag
          /\ \A k \in changed :
               ( /\ changed = {k}
                 /\ saved[k].stat # Null
                 /\ pGetFileStat(k) # Null )
               => OneCall(log', "change", k, pGetFileStat(k))
    ]_vars

\* nothing is watched and no native handle is open
Quiet == pFiles = EmptyHash /\ pWatchers = EmptyHash /\ osWatch = {}

\* C8: reset returns with every native handle closed and both tables
\* empty; from then on, until watch or restore is called, the tables stay
\* empty, no handle is open and no operation, delivery or tick invokes the
\* callback, whatever happens to the file system
C8_ResetFinality ==
  /\ [](op.name = "reset" => Quiet /\ raised = "none")
  /\ [][Quiet /\ op'.name \notin {"watch", "restore"}
         => Quiet' /\ log' = EmptyBag /\ raised' = "none"]_vars

\* a tick ran after a reset that followed a save of watched targets
C8_Witness ==
  /\ op.name = "tick"
  /\ Quiet
  /\ saved # EmptyHash
  /\ log = EmptyBag

\* C9: watch of a path that does not exist returns normally, registers the
\* target with an absent stat, makes the group of its directory if there is
\* none and counts the target in it
C9_WatchAbsent ==
  [][\A p \in TwoFiles :
       ( /\ op'.name = "watch" /\ op'.arg = p
         /\ p \notin DOMAIN pFiles
         /\ ~ExistsSync(p) )
       => /\ raised' = "none"
          /\ p \in DOMAIN pFiles'
          /\ pFiles'[p].stat = Null
          /\ ParentKey(p) \in DOMAIN pWatchers'
          /\ pWatchers'[ParentKey(p)].count =
               1 + (IF ParentKey(p) \in DOMAIN pWatchers
                    THEN pWatchers[ParentKey(p)].count ELSE 0)
    ]_vars

\* C10: when Fs.watch fails on a directory that exists, neither watch nor
\* the tick raises
C10_OpenFailureAbsorbed ==
  op.name \in {"watch", "tick"} => raised # "Error"

\* C11: with validate, a change-kind raw event for a watched file target
\* raises nothing, whether the stored stat and the new stat are present or
\* absent; the stored stat becomes the new stat and the callback is invoked
\* at most once
C11_ValidateChangeNeverRaises ==
  [][validate /\ Delivered(op', pFiles, "change") =>
       /\ raised' = "none"
       /\ pFiles'[op'.arg].stat = pGetFileStat(op'.arg)
       /\ BagCardinality(log') <= 1
    ]_vars

\* how many of the callbacks l name the target name
TimesCalled(l, name) ==
  BagCardinality([c \in CallsFor(l, name) |-> CopiesIn(c, l)])

\* the calls among the callbacks l that name the target name, with kind evt
CallsOfKind(l, name, evt) == {c \in CallsFor(l, name) : c.evt = evt}

\* C12: restore(snapshot) raises nothing and leaves exactly the keys of the
\* snapshot watched; an entry that was present and is gone from disk gets
\* exactly one remove, an entry that was absent and exists now gets exactly
\* one create
C12_RestoreEveryEntry ==
  [][op'.name = "restore" =>
       /\ raised' = "none"
       /\ DOMAIN pFiles' = DOMAIN saved
       /\ \A k \in DOMAIN saved :
            /\ (saved[k].stat # Null /\ ~ExistsSync(k)) =>
                 /\ CallsFor(log', k) = CallsOfKind(log', k, "remove")
                 /\ TimesCalled(log', k) = 1
            /\ (saved[k].stat = Null /\ ExistsSync(k)) =>
                 /\ CallsFor(log', k) = CallsOfKind(log', k, "create")
                 /\ TimesCalled(log', k) = 1
    ]_vars

\* the groups of reg whose handle a tick would open or close now
Flipping(reg) ==
  {d \in DOMAIN reg.pWatchers : Xor(reg.pWatchers[d].handler, ExistsSync(d))}

\* C13: after a raw event for a watched file target was classified, native
\* or made by a tick, without raising, the stored stat of the target is the
\* stat probed by that classification, reported or not; getFileStat returns
\* it and the stat passed to the callback is it
C13_StoredStatReplaced ==
  [][/\ ( (op'.name = "event" /\ op'.arg \in DOMAIN pFiles /\ raised' = "none")
          => /\ pFiles'[op'.arg].stat = pGetFileStat(op'.arg)
             /\ getFileStat([pFiles |-> pFiles'], op'.arg) = pGetFileStat(op'.arg)
             /\ \A c \in BagToSet(log') : c.arg = pFiles'[op'.arg].stat )
     /\ ( (op'.name = "tick" /\ raised' = "none")
          => \A d \in Flipping(Reg) : \A k \in DOMAIN pFiles :
               StartsWith(k, d) =>
                 /\ getFileStat([pFiles |-> pFiles'], k) = pGetFileStat(k)
                 /\ \A c \in CallsFor(log', k) : c.arg = pFiles'[k].stat )
    ]_vars

\* a change was delivered for a file rewritten with the bytes it had; it
\* was not reported, and the stored stat is the one of the rewritten file
C13_Witness ==
  /\ validate
  /\ op.name = "event" /\ op.evt = "change" /\ op.arg \in DOMAIN pFiles
  /\ log = EmptyBag
  /\ raised = "none"
  /\ fs[op.arg] = "v2"
  /\ getFileStat(Reg, op.arg) = pGetFileStat(op.arg)

\* the target k is an entry of the directory that the group d stands for
Inside(k, d) == Dirname(k) = StripSlash(d)

\* the handles open for the group d
HandlesOf(h, d) == {x \in h : x.dir = d}

\* C14: a tick opens the handle of every group whose directory is there
\* and has none, and closes the handle of every group whose directory is
\* gone; for each such group it feeds one rename to every watched file
\* target in that directory, and none to a target outside it; a group whose
\* handle agrees with its directory keeps its handle and has no event made
C14_TickToggle ==
  [][op'.name = "tick" =>
       /\ \A d \in Flipping(Reg) :
            /\ pWatchers'[d].handler = ExistsSync(d)
            /\ HandlesOf(osWatch', d) =
                 (IF ExistsSync(d) THEN {[dir |-> d, stale |-> FALSE]} ELSE {})
       /\ \A d \in DOMAIN pWatchers \ Flipping(Reg) :
            /\ pWatchers'[d].handler = pWatchers[d].handler
            /\ HandlesOf(osWatch', d) = HandlesOf(osWatch, d)
       /\ \A k \in DOMAIN pFiles :
            /\ ~(HasKey(pWatchers, k) /\ pWatchers[k].watchDir) =>
                 TimesCalled(log', k) =
                   Cardinality({d \in Flipping(Reg) : Inside(k, d)})
            /\ (\A d \in Flipping(Reg) : ~Inside(k, d) /\ k # StripSlash(d)) =>
                 TimesCalled(log', k) = 0
    ]_vars

\* C15: a native event (evt, name) delivered by the handle of the group d
\* invokes the callback at most once, and as a classification with the new
\* stat, when the entry name of d is a watched target; exactly once, with
\* evt and the path of that entry, when it is not and d is a watched
\* directory; and not at all, changing nothing, otherwise
C15_RawEventRouting ==
  [][\A h \in osWatch, name \in EventNames :
       (op'.name = "event" /\ op'.arg = h.dir \o name) =>
         LET full == StripSlash(h.dir) \o <<"/">> \o name
         IN IF full \in DOMAIN pFiles
            THEN /\ BagCardinality(log') <= 1
                 /\ \A c \in BagToSet(log') :
                      c.name = pFiles[full].name /\ c.arg = pGetFileStat(full)
            ELSE IF HasKey(pWatchers, h.dir) /\ pWatchers[h.dir].watchDir
            THEN /\ BagCardinality(log') = 1
                 /\ \A c \in BagToSet(log') : c.evt = op'.evt /\ c.name = full
            ELSE /\ log' = EmptyBag
                 /\ UNCHANGED <<pFiles, pWatchers, osWatch>>
    ]_vars

\* C16: a rename, delivered by a native watch or made by a tick, for a
\* watched file target that is stored as present and is there, or stored as
\* absent and is not there, invokes the callback exactly once for it, with
\* rename, the target's name and the new stat
C16_RenameUnchangedExistence ==
  [][/\ ( Delivered(op', pFiles, "rename")
          /\ (pFiles[op'.arg].stat # Null) = ExistsSync(op'.arg)
          => OneCall(log', "rename", pFiles[op'.arg].name, pGetFileStat(op'.arg)) )
     /\ ( op'.name = "tick"
          => \A d \in Flipping(Reg) : \A k \in DOMAIN pFiles :
               (StartsWith(k, d) /\ (pFiles[k].stat # Null) = ExistsSync(k))
               => /\ TimesCalled(log', k) = 1
                  /\ \A c \in CallsFor(log', k) :
                       /\ c.evt = "rename"
                       /\ c.name = pFiles[k].name
                       /\ c.arg = pGetFileStat(k) )
    ]_vars

\* a tick found the directory gone and fed a rename to a target that was
\* already stored as absent
C16_Witness ==
  /\ op.name = "tick"
  /\ ~ExistsSync(DirA)
  /\ \E c \in CallsFor(log, FileF) : c.evt = "rename" /\ c.arg = Null
  /\ TimesCalled(log, FileF) = 1

\* C17: no step after a save() changes the snapshot it returned, neither
\* its keys nor a stat in it, whatever becomes of the registry; and save()
\* leaves the targets, the groups and the handles as they are, invokes no
\* callback and raises nothing
C17_SaveIndependence ==
  [][/\ (op'.name # "save" => saved' = saved)
     /\ (op'.name = "save" =>
           /\ UNCHANGED <<pFiles, pWatchers, osWatch>>
           /\ saved' = pFiles
           /\ log' = EmptyBag
           /\ raised' = "none")
    ]_vars

\* a classification replaced the stored stat of a target held in a
\* snapshot, and the snapshot has the stat it was saved with
C17_Witness ==
  /\ op.name = "event"
  /\ op.arg \in DOMAIN saved
  /\ op.arg \in DOMAIN pFiles
  /\ saved[op.arg].stat # Null
  /\ pFiles[op.arg].stat # saved[op.arg].stat

\* C18: in one tick every watched target gets at most one callback, also
\* when a group for the watched directory and a group for the files in it
\* both cover the target; a target that came or went gets its create or
\* remove and no rename besides
C18_TickDeduplication ==
  [][op'.name = "tick" =>
       \A k \in DOMAIN pFiles :
         /\ TimesCalled(log', k) <= 1
         /\ Xor(pFiles[k].stat # Null, ExistsSync(k)) =>
              \A c \in CallsFor(log', k) : c.evt \in {"create", "remove"}
    ]_vars

\* C19: between its registration and the next unwatch, reset or restore,
\* the create and remove callbacks of a watched file target alternate: a
\* create is reported only when the target was watched absent or a remove
\* was the last of the two reported for it, a remove only when it was
\* watched present or a create was the last reported
C19_CreateRemoveAlternate ==
  [][op'.name \in {"event", "tick"} =>
       \A k \in DOMAIN pFiles \cap TwoFiles :
         /\ Reported(log', k, "create") => last[k] = "remove"
         /\ Reported(log', k, "remove") => last[k] = "create"
    ]_vars

\* C20: in every state, also after a watch or unwatch that raised, every
\* registered target has its group in the group table (its own key for a
\* watched directory, its parent's key for a file), the count of each group
\* is the number of registered file targets with that parent key and is
\* not negative, and watchDir is set exactly for the groups whose directory
\* is itself a registered target
C20_CountersConsistent ==
  /\ \A k \in DOMAIN pFiles :
       HasKey(pWatchers, k) \/ HasKey(pWatchers, ParentKey(k))
  /\ \A d \in DOMAIN pWatchers :
       /\ pWatchers[d].count >= 0
       /\ pWatchers[d].count =
            Cardinality({k \in DOMAIN pFiles :
                           ~HasKey(pWatchers, k) /\ ParentKey(k) = d})
       /\ pWatchers[d].watchDir <=> HasKey(pFiles, d)

====
